---- MODULE Spec2Model ----
(***************************************************************************)
(* A model of the Janitor cleanup registry of src/src/index.js.            *)
(*                                                                         *)
(* JavaScript runs one task at a time, to completion.  A task is a piece   *)
(* of caller code (it registers cleaners, calls unregister handles, calls  *)
(* cleanup()), a timer firing, or a promise reaction (a microtask).  The   *)
(* registry's own code is synchronous; while cleanup() runs, the only code *)
(* that executes is the cleaners' callbacks, which may call back into the  *)
(* registry.  The model therefore keeps an explicit call stack of the      *)
(* cleanup() invocations in progress: caller-level actions are enabled     *)
(* only when the stack is empty, and while it is not empty the next step   *)
(* of the innermost forEach loop is the only thing that can happen.        *)
(*                                                                         *)
(* Every `wrapped` closure created by addCleaner is a distinct object; it  *)
(* is identified here by a number, given in creation order.                *)
(***************************************************************************)
EXTENDS Integers, Sequences, FiniteSets, TLC

\* Bounds of the model.
MaxCleaners == 3    \* closures created by addCleaner in one run
MaxCalls == 2       \* cleanup() calls made by caller code in one run
MaxDepth == 3       \* nested cleanup() frames the engine's call stack holds
MaxOpts == 1        \* options objects the caller keeps and passes to fetch()
MaxEvents == 2      \* events dispatched on the target in one run
MaxStreams == 2     \* derived streams addStream() returns in one run
MaxEmits == 2       \* values the source stream emits in one run

Ids == 1..MaxCleaners
Opts == 1..MaxOpts
Streams == 1..MaxStreams

(***************************************************************************)
(* What a callback handed to addCleaner does when it is called.            *)
(*   noop         returns                                                  *)
(*   throw        raises an error                                          *)
(*   register     calls janitor.addCleaner(f), f a callback that returns   *)
(*                (spawn = "noop") or raises (spawn = "throw")             *)
(*   unregister   calls the removeCleaner handle of closure `target`, if   *)
(*                that closure has been created                            *)
(*   cleanupOnce  calls janitor.cleanup() the first time it runs           *)
(*   cleanup      calls janitor.cleanup() every time it runs               *)
(* The adapters' callbacks are clearTimeout (kind "timer"),                *)
(* cancellable.cancel (kind "promise"), abortController.abort (kind        *)
(* "abort"), target.removeEventListener (kind "listener") and              *)
(* cleanupSubject.next (kind "subject").                                   *)
(***************************************************************************)
NoFn == [kind |-> "none", op |-> "noop", target |-> 0, spawn |-> "noop"]

UserFn(op, target, spawn) ==
  [kind |-> "user", op |-> op, target |-> target, spawn |-> spawn]

UserFns ==
  {UserFn(op, 0, "noop") : op \in {"noop", "throw", "cleanupOnce", "cleanup"}}
    \cup {UserFn("register", 0, s) : s \in {"noop", "throw"}}
    \cup {UserFn("unregister", t, "noop") : t \in Ids}

VARIABLES
  cleaners,   \* this.cleaners: the wrapped closures, in array order
  fn,         \* fn[c]: the callback that wrapped closure c closes over
  made,       \* number of wrapped closures created so far
  stack,      \* the cleanup() calls in progress, outermost first
  runs,       \* runs[c]: times the callback of c has been called
  handled,    \* closures whose removeCleaner handle has been called
  born,       \* born[c]: the cleanup() calls in progress when c was registered
  calls,      \* cleanup() calls started so far (each gets the next number)
  tops,       \* cleanup() calls started by caller code so far
  prev,       \* how the latest finished caller-level cleanup() call went
  last,       \* the latest caller-level registry operation
  annulled,   \* closures unregistered by the caller right after registration
  swept,      \* timers, promises and requests pending when a caller's
              \* cleanup() started
  timer,      \* timer[c]: the host timer scheduled by setTimeout for closure c
  cb,         \* cb[c]: times the callback given to setTimeout has been called
  logged,     \* timers whose callback error went to window.console.error
  escaped,    \* timers whose callback error reached the host scheduler
  orig,       \* orig[c]: the promise given to addPromise for closure c
  env,        \* env[c]: the promise addPromise returned (cancellable.promise)
  micro,      \* the promise reaction jobs queued, oldest first
  draining,   \* the host is running the queued reaction jobs
  signal,     \* signal[o]: the signal property of the caller's options object o
  given,      \* the init argument of the latest janitor.fetch() call
  req,        \* req[c]: the request window.fetch issued for closure c
  ctl,        \* ctl[c]: the AbortController janitor.fetch() made for closure c
  listener,   \* listener[c]: the event listener the target holds for closure c
  heard,      \* heard[c]: times the event callback of closure c has been called
  since,      \* since[c]: events dispatched before closure c was registered
  events,     \* events dispatched on the target so far
  subject,    \* this.cleanupSubject has been created
  tracked,    \* derived streams addStream() has returned so far
  sub,        \* sub[t]: the subscription to derived stream t
  got,        \* got[t]: emissions delivered to the subscriber of stream t
  emitted,    \* values the source stream has emitted so far
  direct,     \* emissions delivered to the direct subscriber of the source
  cut         \* streams with a live subscription when a caller's cleanup()
              \* started

tvars == <<timer, cb, logged, escaped>>
pvars == <<orig, env, micro, draining>>
fvars == <<signal, given, req, ctl>>
lvars == <<listener, heard, since, events>>
svars == <<subject, tracked, sub, got, emitted, direct, cut>>
xvars == <<fvars, lvars, svars>>
vars == <<cleaners, fn, made, stack, runs, handled, born, calls, tops, prev,
          last, annulled, swept, timer, cb, logged, escaped, orig, env, micro,
          draining, signal, given, req, ctl, listener, heard, since, events,
          subject, tracked, sub, got, emitted, direct, cut>>

----------------------------------------------------------------------------
(* Array primitives, 1-based: index 0 stands for JavaScript's -1.          *)

\* Array.prototype.indexOf: the first index holding x, or "not found".
IndexOf(s, x) ==
  IF \E k \in 1..Len(s) : s[k] = x
    THEN CHOOSE k \in 1..Len(s) : s[k] = x /\ \A j \in 1..(k - 1) : s[j] # x
    ELSE 0

\* Array.prototype.splice(index, 1): the array without the element at index.
Splice(s, index) ==
  [k \in 1..(Len(s) - 1) |-> IF k < index THEN s[k] ELSE s[k + 1]]

\* removeCleaner without the index >= 0 test: splice(-1, 1) removes the last
\* element of the array.
RemoveCleanerUnguarded(cl, c) ==
  LET index == IndexOf(cl, c)
  IN  IF index >= 1 THEN Splice(cl, index)
      ELSE IF Len(cl) > 0 THEN Splice(cl, Len(cl)) ELSE cl

\* removeCleaner looking up the raw callback instead of the wrapped closure:
\* the array holds no such element, so nothing is ever removed.
RemoveCleanerByCallback(cl, c) == cl

\* removeCleaner: the closure is looked up by identity and spliced out.
RemoveCleaner(cl, c) ==
  LET index == IndexOf(cl, c)
  IN  IF index >= 1 THEN Splice(cl, index) ELSE cl

\* this.cleaners.unshift(wrapped): the new closure goes to the front.
Unshift(cl, c) == <<c>> \o cl

\* this.cleaners.push(wrapped)
Push(cl, c) == Append(cl, c)

\* forEach over this.cleaners itself, without slice(0): the loop sees the
\* removals and registrations the callbacks make.
IteratedLive(frame, live) == live

\* What the forEach of a cleanup() call walks: the copy made by slice(0).
Iterated(frame, live) == frame.snap

Range(s) == {s[k] : k \in 1..Len(s)}

----------------------------------------------------------------------------
NoCall == [call |-> 0, snap |-> <<>>, result |-> "none", regs |-> {}]
NoOp == [op |-> "none", id |-> 0, before |-> <<>>, fresh |-> FALSE,
         mark |-> <<>>]

\* No listener: the target holds none for the closure.
NoListener == [on |-> FALSE, capture |-> FALSE]

\* No fetch() call has been made yet.
NoInit == [kind |-> "none", obj |-> 0]

\* The caller has just registered closure c; `before` is this.cleaners as
\* the registration found it.
Registering(c, before) ==
  [NoOp EXCEPT !.op = "register", !.id = c, !.before = before]

Init ==
  /\ cleaners = <<>>
  /\ fn = [c \in Ids |-> NoFn]
  /\ made = 0
  /\ stack = <<>>
  /\ runs = [c \in Ids |-> 0]
  /\ handled = {}
  /\ born = [c \in Ids |-> {}]
  /\ calls = 0
  /\ tops = 0
  /\ prev = NoCall
  /\ last = NoOp
  /\ annulled = {}
  /\ swept = {}
  /\ timer = [c \in Ids |-> "none"]
  /\ cb = [c \in Ids |-> 0]
  /\ logged = {}
  /\ escaped = {}
  /\ orig = [c \in Ids |-> "none"]
  /\ env = [c \in Ids |-> "none"]
  /\ micro = <<>>
  /\ draining = FALSE
  /\ signal = [o \in Opts |-> "none"]
  /\ given = NoInit
  /\ req = [c \in Ids |-> "none"]
  /\ ctl = [c \in Ids |-> "none"]
  /\ listener = [c \in Ids |-> NoListener]
  /\ heard = [c \in Ids |-> 0]
  /\ since = [c \in Ids |-> 0]
  /\ events = 0
  /\ subject = FALSE
  /\ tracked = 0
  /\ sub = [t \in Streams |-> "none"]
  /\ got = [t \in Streams |-> 0]
  /\ emitted = 0
  /\ direct = 0
  /\ cut = {}

\* Caller code runs only when no cleanup() call is in progress, and not
\* in the middle of the host's run of the queued reaction jobs.
Idle == stack = <<>> /\ ~draining

Active == {stack[k].call : k \in 1..Len(stack)}

----------------------------------------------------------------------------
(* Caller-level operations.                                                *)

\* janitor.addCleaner(callback)
AddCleaner(f) ==
  /\ Idle
  /\ made < MaxCleaners
  /\ LET c == made + 1
     IN  /\ cleaners' = Push(cleaners, c)
         /\ fn' = [fn EXCEPT ![c] = f]
         /\ made' = c
         /\ born' = [born EXCEPT ![c] = {}]
         /\ last' = Registering(c, cleaners)
  /\ UNCHANGED <<stack, runs, handled, calls, tops, prev, tvars, pvars,
                 annulled, swept>>
  /\ UNCHANGED xvars

\* The removeCleaner handle that addCleaner returned for closure c.
CallRemoveCleaner(c) ==
  /\ Idle
  /\ c \in 1..made
  /\ fn[c].kind = "user"
  /\ cleaners' = RemoveCleaner(cleaners, c)
  /\ handled' = handled \cup {c}
  /\ last' = IF last.op = "register" /\ last.id = c
               THEN [last EXCEPT !.op = "register-unregister"]
               ELSE NoOp
  /\ annulled' = IF last.op = "register" /\ last.id = c
                   THEN annulled \cup {c} ELSE annulled
  /\ UNCHANGED <<fn, made, stack, runs, born, calls, tops, prev, tvars, pvars,
                 swept>>
  /\ UNCHANGED xvars

NewFrame(n, live) ==
  [call |-> n, snap |-> live, i |-> 0, cur |-> 0, done |-> <<>>]

\* janitor.cleanup(), called by caller code
CallCleanup ==
  /\ Idle
  /\ tops < MaxCalls
  /\ stack' = <<NewFrame(calls + 1, cleaners)>>
  /\ calls' = calls + 1
  /\ tops' = tops + 1
  /\ last' = IF last.op = "cleanup" /\ prev.result = "returned"
               THEN [NoOp EXCEPT !.op = "cleanup-again", !.before = prev.snap,
                                 !.fresh = (prev.regs = {}), !.mark = runs]
               ELSE [NoOp EXCEPT !.op = "cleanup"]
  /\ swept' = swept \cup {c \in Range(cleaners) :
                           \/ timer[c] = "pending"
                           \/ orig[c] = "pending" /\ env[c] = "pending"
                           \/ req[c] = "pending"}
  /\ UNCHANGED <<cleaners, fn, made, runs, handled, born, prev, tvars, pvars,
                 annulled>>
  /\ cut' = cut \cup {t \in Streams : sub[t] = "live"}
  /\ UNCHANGED <<fvars, lvars, subject, tracked, sub, got, emitted, direct>>

----------------------------------------------------------------------------
(* Inside cleanup(): the forEach loop of the innermost call.               *)

Top == stack[Len(stack)]

\* The loop has an element left and no wrapped closure is mid-call.
AtLoop == stack # <<>> /\ Top.cur = 0 /\ Top.i < Len(Top.snap)

\* The closure the loop calls next (0: the index holds nothing).
Current ==
  LET it == Iterated(Top, cleaners)
  IN  IF Top.i + 1 <= Len(it) THEN it[Top.i + 1] ELSE 0

\* The innermost frame after wrapped closure c has been called and returned.
Stepped(c) ==
  [stack EXCEPT ![Len(stack)] =
     [@ EXCEPT !.i = @ + 1, !.done = Append(@, c)]]

\* The innermost frame while wrapped closure c is still inside its callback.
Entered(c) ==
  [stack EXCEPT ![Len(stack)] =
     [@ EXCEPT !.i = @ + 1, !.done = Append(@, c), !.cur = c]]

Ran(c) == [runs EXCEPT ![c] = @ + 1]

\* wrapped: the callback returns at once, then removeCleaner().
InvokeReturn ==
  /\ AtLoop
  /\ LET c == Current
     IN  /\ c # 0
         /\ \/ fn[c].kind = "user" /\ fn[c].op = "noop"
            \/ fn[c].kind = "user" /\ fn[c].op = "cleanupOnce" /\ runs[c] > 0
         /\ runs' = Ran(c)
         /\ cleaners' = RemoveCleaner(cleaners, c)
         /\ stack' = Stepped(c)
  /\ UNCHANGED <<fn, made, handled, born, calls, tops, prev, last, tvars,
                 pvars, annulled, swept>>
  /\ UNCHANGED xvars

\* wrapped: the callback registers a new cleaner, then removeCleaner().
InvokeRegister ==
  /\ AtLoop
  /\ made < MaxCleaners
  /\ LET c == Current
         n == made + 1
     IN  /\ c # 0
         /\ fn[c].kind = "user" /\ fn[c].op = "register"
         /\ runs' = Ran(c)
         /\ cleaners' = RemoveCleaner(Push(cleaners, n), c)
         /\ fn' = [fn EXCEPT ![n] = UserFn(fn[c].spawn, 0, "noop")]
         /\ made' = n
         /\ born' = [born EXCEPT ![n] = Active]
         /\ stack' = Stepped(c)
  /\ UNCHANGED <<handled, calls, tops, prev, last, tvars, pvars, annulled,
                 swept>>
  /\ UNCHANGED xvars

\* wrapped: the callback calls another closure's removeCleaner handle, then
\* removeCleaner().
InvokeUnregister ==
  /\ AtLoop
  /\ LET c == Current
         t == fn[c].target
     IN  /\ c # 0
         /\ fn[c].kind = "user" /\ fn[c].op = "unregister"
         /\ runs' = Ran(c)
         /\ cleaners' = IF t <= made
                          THEN RemoveCleaner(RemoveCleaner(cleaners, t), c)
                          ELSE RemoveCleaner(cleaners, c)
         /\ handled' = IF t <= made THEN handled \cup {t} ELSE handled
         /\ stack' = Stepped(c)
  /\ UNCHANGED <<fn, made, born, calls, tops, prev, last, tvars, pvars,
                 annulled, swept>>
  /\ UNCHANGED xvars

\* wrapped: the callback calls janitor.cleanup(); removeCleaner() waits for
\* that call to return.
InvokeCleanup ==
  /\ AtLoop
  /\ Len(stack) < MaxDepth
  /\ LET c == Current
     IN  /\ c # 0
         /\ \/ fn[c].kind = "user" /\ fn[c].op = "cleanup"
            \/ fn[c].kind = "user" /\ fn[c].op = "cleanupOnce" /\ runs[c] = 0
         /\ runs' = Ran(c)
         /\ stack' = Append(Entered(c), NewFrame(calls + 1, cleaners))
         /\ calls' = calls + 1
  /\ UNCHANGED <<cleaners, fn, made, handled, born, tops, prev, last, tvars,
                 pvars, annulled, swept>>
  /\ UNCHANGED xvars

\* How a caller-level cleanup() call ended.
Ended(result) ==
  [call |-> stack[1].call, snap |-> stack[1].snap, result |-> result,
   regs |-> {c \in 1..made' : stack[1].call \in born'[c]}]

\* wrapped: the callback raises.  Nothing between it and the caller catches:
\* the error leaves wrapped before removeCleaner(), leaves every forEach and
\* every enclosing callback, and reaches the code that called cleanup().
\* A cleanup() call that would exceed the engine's call stack raises too.
InvokeThrow ==
  /\ AtLoop
  /\ LET c == Current
     IN  /\ c # 0
         /\ \/ fn[c].kind = "user" /\ fn[c].op = "throw"
            \/ /\ fn[c].kind = "user" /\ fn[c].op = "cleanup"
               /\ Len(stack) = MaxDepth
            \/ /\ fn[c].kind = "user" /\ fn[c].op = "cleanupOnce" /\ runs[c] = 0
               /\ Len(stack) = MaxDepth
         /\ runs' = Ran(c)
         /\ stack' = <<>>
         /\ UNCHANGED <<cleaners, fn, made, handled, born, calls, tops, last,
                        tvars, pvars, annulled, swept>>
         /\ prev' = Ended("threw")
  /\ UNCHANGED xvars

\* forEach is done: cleanup() returns.  A nested call returns into the
\* callback that made it, which returns into wrapped, which then calls its
\* removeCleaner().
Return ==
  /\ stack # <<>>
  /\ Top.cur = 0
  /\ Top.i = Len(Top.snap)
  /\ IF Len(stack) = 1
       THEN /\ stack' = <<>>
            /\ UNCHANGED <<cleaners, born, made, tvars, pvars, annulled,
                           swept>>
            /\ prev' = Ended("returned")
       ELSE LET parent == stack[Len(stack) - 1]
            IN  /\ cleaners' = RemoveCleaner(cleaners, parent.cur)
                /\ stack' = [SubSeq(stack, 1, Len(stack) - 1)
                               EXCEPT ![Len(stack) - 1] = [@ EXCEPT !.cur = 0]]
                /\ UNCHANGED <<prev, born, made, tvars, pvars, annulled,
                               swept>>
  /\ UNCHANGED <<fn, runs, handled, calls, tops, last, tvars, pvars, annulled,
                 swept>>
  /\ UNCHANGED xvars

----------------------------------------------------------------------------
(* The timer adapter.  The host's setTimeout/clearTimeout are modelled by   *)
(* the state of the timer: pending until it fires or is cleared.           *)

TimerFn == [kind |-> "timer", op |-> "noop", target |-> 0, spawn |-> "noop"]

\* janitor.setTimeout(callback, timeoutMs)
SetTimeout ==
  /\ Idle
  /\ made < MaxCleaners
  /\ LET c == made + 1
     IN  /\ cleaners' = Push(cleaners, c)
         /\ fn' = [fn EXCEPT ![c] = TimerFn]
         /\ made' = c
         /\ born' = [born EXCEPT ![c] = {}]
         /\ timer' = [timer EXCEPT ![c] = "pending"]
         /\ last' = Registering(c, cleaners)
  /\ UNCHANGED <<stack, runs, handled, calls, tops, prev, cb, logged, escaped,
                 pvars, annulled, swept>>
  /\ UNCHANGED xvars

\* The timer body when removeCleaner() is the last statement of the try
\* block instead of a finally block: a callback that raises skips it.
TimerBodyNoFinally(throws) ==
  [logged |-> throws, escaped |-> FALSE, removed |-> ~throws]

\* The timer body: try { callback() } catch { console.error } finally
\* { removeCleaner() }.  `throws` says whether the callback raises.
TimerBody(throws) ==
  [logged |-> throws, escaped |-> FALSE, removed |-> TRUE]

\* The delay has elapsed: the host runs the timer body, as a task of its own.
TimerFire(c, throws) ==
  /\ Idle
  /\ micro = <<>>
  /\ timer[c] = "pending"
  /\ LET out == TimerBody(throws)
     IN  /\ timer' = [timer EXCEPT ![c] = IF throws THEN "failed" ELSE "fired"]
         /\ cb' = [cb EXCEPT ![c] = @ + 1]
         /\ logged' = IF out.logged THEN logged \cup {c} ELSE logged
         /\ escaped' = IF out.escaped THEN escaped \cup {c} ELSE escaped
         /\ cleaners' = IF out.removed THEN RemoveCleaner(cleaners, c)
                                       ELSE cleaners
         /\ handled' = IF out.removed THEN handled \cup {c} ELSE handled
  /\ last' = NoOp
  /\ UNCHANGED <<fn, made, stack, runs, born, calls, tops, prev, pvars,
                 annulled, swept>>
  /\ UNCHANGED xvars

\* clearTimeout(timeout): a pending timer never fires; any other is left.
ClearTimeout(t) == IF t = "pending" THEN "cleared" ELSE t

\* wrapped of a timer's cleaner: clearTimeout(timeout), then removeCleaner().
InvokeClearTimeout ==
  /\ AtLoop
  /\ LET c == Current
     IN  /\ c # 0
         /\ fn[c].kind = "timer"
         /\ runs' = Ran(c)
         /\ timer' = [timer EXCEPT ![c] = ClearTimeout(@)]
         /\ cleaners' = RemoveCleaner(cleaners, c)
         /\ stack' = Stepped(c)
  /\ UNCHANGED <<fn, made, handled, born, calls, tops, prev, last, cb, logged,
                 escaped, pvars, annulled, swept>>
  /\ UNCHANGED xvars

----------------------------------------------------------------------------
(* The promise adapter.  promiseCancel(promise) returns an envelope promise *)
(* that settles as the given promise does unless cancel() rejects it first *)
(* with {type: 'cancel'}.  A promise settles once; its reactions run as    *)
(* jobs the host queues and runs, in order, when the running task ends.    *)

PromiseFn == [kind |-> "promise", op |-> "noop", target |-> 0, spawn |-> "noop"]

SettleJob(c, how) == [job |-> "settle", id |-> c, how |-> how]
ThenJob(c) == [job |-> "then", id |-> c, how |-> "none"]

\* then(removeCleaner): the reaction is attached for fulfilment only.
ReactionOnFulfilOnly(c, how) ==
  IF how = "resolved" THEN <<ThenJob(c)>> ELSE <<>>

\* cancellable.promise.then(removeCleaner, removeCleaner): the jobs queued
\* when the envelope settles, however it settles.
Reaction(c, how) == <<ThenJob(c)>>

\* janitor.addPromise(promise), promise not yet settled
AddPromise ==
  /\ Idle
  /\ made < MaxCleaners
  /\ LET c == made + 1
     IN  /\ cleaners' = Push(cleaners, c)
         /\ fn' = [fn EXCEPT ![c] = PromiseFn]
         /\ made' = c
         /\ born' = [born EXCEPT ![c] = {}]
         /\ orig' = [orig EXCEPT ![c] = "pending"]
         /\ env' = [env EXCEPT ![c] = "pending"]
         /\ last' = Registering(c, cleaners)
  /\ UNCHANGED <<stack, runs, handled, calls, tops, prev, tvars, micro,
                 draining, annulled, swept>>
  /\ UNCHANGED xvars

\* The given promise settles (the code that owns it resolves or rejects it):
\* the envelope's reaction to it is queued.
Settle(c, how) ==
  /\ Idle
  /\ orig[c] = "pending"
  /\ orig' = [orig EXCEPT ![c] = how]
  /\ micro' = Append(micro, SettleJob(c, how))
  /\ last' = NoOp
  /\ UNCHANGED <<cleaners, fn, made, stack, runs, handled, born, calls, tops,
                 prev, tvars, env, draining, annulled, swept>>
  /\ UNCHANGED xvars

\* Whether cancel() settles an envelope that is still pending.  It does
\* while the given promise is pending.  Once the given promise has settled
\* and the envelope's reaction to it is queued, the library decides which of
\* the two settles the envelope; either may.
CancelWins(c) == IF orig[c] = "pending" THEN {TRUE} ELSE BOOLEAN

\* wrapped of a promise's cleaner: cancellable.cancel(), then
\* removeCleaner().  cancel() rejects the envelope, which has an effect only
\* while the envelope is pending.
InvokeCancel ==
  /\ AtLoop
  /\ LET c == Current
     IN  /\ c # 0
         /\ fn[c].kind = "promise"
         /\ runs' = Ran(c)
         /\ \E wins \in CancelWins(c) :
              IF env[c] = "pending" /\ wins
                THEN /\ env' = [env EXCEPT ![c] = "cancelled"]
                     /\ micro' = micro \o Reaction(c, "cancelled")
                ELSE UNCHANGED <<env, micro>>
         /\ cleaners' = RemoveCleaner(cleaners, c)
         /\ stack' = Stepped(c)
  /\ UNCHANGED <<fn, made, handled, born, calls, tops, prev, last, tvars, orig,
                 draining, annulled, swept>>
  /\ UNCHANGED xvars

\* The host runs the oldest queued job.  "settle": the envelope takes the
\* given promise's outcome, unless it has settled already, and the reaction
\* addPromise attached with then(removeCleaner, removeCleaner) is queued.
\* "then": that reaction runs removeCleaner().
Microtask ==
  /\ stack = <<>>
  /\ micro # <<>>
  /\ LET j == Head(micro)
         c == j.id
     IN  IF j.job = "settle"
           THEN /\ env' = [env EXCEPT ![c] = IF @ = "pending" THEN j.how ELSE @]
                /\ micro' = IF env[c] = "pending"
                              THEN Tail(micro) \o Reaction(c, j.how)
                              ELSE Tail(micro)
                /\ UNCHANGED <<cleaners, handled>>
           ELSE /\ cleaners' = RemoveCleaner(cleaners, c)
                /\ handled' = handled \cup {c}
                /\ micro' = Tail(micro)
                /\ UNCHANGED env
  /\ draining' = (micro' # <<>>)
  /\ last' = NoOp
  /\ UNCHANGED <<fn, made, stack, runs, born, calls, tops, prev, tvars, orig,
                 annulled, swept>>
  /\ UNCHANGED xvars

----------------------------------------------------------------------------
(* The request adapter.  janitor.fetch(resource, init) is given no options  *)
(* ("undefined"), a literal that carries a signal of the caller's           *)
(* ("withSignal"), or one of the options objects the caller keeps and may   *)
(* pass again ("kept").  A kept object starts without a signal property.    *)

AbortFn == [kind |-> "abort", op |-> "noop", target |-> 0, spawn |-> "noop"]

Inits ==
  {[kind |-> k, obj |-> 0] : k \in {"undefined", "withSignal"}}
    \cup {[kind |-> "kept", obj |-> o] : o \in Opts}

\* opts.signal as fetch() finds it: "none" stands for a missing property.
SignalOf(init) ==
  IF init.kind = "kept" THEN signal[init.obj]
  ELSE IF init.kind = "withSignal" THEN "caller" ELSE "none"

\* fetch() testing opts.signal only after addAbortController(): the misuse
\* error leaves a cleaner behind.
FetchStepsCheckLate(sig) ==
  [throws |-> sig # "none", registers |-> TRUE, assigns |-> FALSE,
   issues |-> FALSE]

\* The statements fetch() executes, given opts.signal: it throws before
\* anything else if the property is set, and otherwise registers the abort
\* cleaner, assigns opts.signal and calls window.fetch.
FetchSteps(sig) ==
  IF sig # "none"
    THEN [throws |-> TRUE, registers |-> FALSE, assigns |-> FALSE,
          issues |-> FALSE]
    ELSE [throws |-> FALSE, registers |-> TRUE, assigns |-> TRUE,
          issues |-> TRUE]

\* The caller's fetch() call has thrown; `id`, `before` and `mark` are the
\* closures made, this.cleaners and the requests as the call found them.
FetchThrew ==
  [NoOp EXCEPT !.op = "fetch-threw", !.id = made, !.before = cleaners,
               !.mark = req]

\* janitor.fetch(resource, init)
Fetch(init) ==
  /\ Idle
  /\ LET out == FetchSteps(SignalOf(init))
         c == made + 1
     IN  /\ out.registers => made < MaxCleaners
         /\ IF out.registers
              THEN /\ cleaners' = Push(cleaners, c)
                   /\ fn' = [fn EXCEPT ![c] = AbortFn]
                   /\ made' = c
                   /\ born' = [born EXCEPT ![c] = {}]
                   /\ ctl' = [ctl EXCEPT ![c] = "live"]
              ELSE UNCHANGED <<cleaners, fn, made, born, ctl>>
         /\ signal' = IF out.assigns /\ init.kind = "kept"
                        THEN [signal EXCEPT ![init.obj] = "janitor"]
                        ELSE signal
         /\ req' = IF out.issues THEN [req EXCEPT ![c] = "pending"] ELSE req
         /\ last' = IF out.throws THEN FetchThrew
                                  ELSE Registering(c, cleaners)
  /\ given' = init
  /\ UNCHANGED <<stack, runs, handled, calls, tops, prev, tvars, pvars,
                 annulled, swept>>
  /\ UNCHANGED lvars
  /\ UNCHANGED svars

\* The network call ends, by a response or by a failure: the host settles
\* the promise window.fetch returned and goes on to run the reaction that
\* fetch() attached with then(removeCleaner, removeCleaner).
FetchSettle(c, how) ==
  /\ Idle
  /\ micro = <<>>
  /\ req[c] = "pending"
  /\ req' = [req EXCEPT ![c] = how]
  /\ micro' = <<ThenJob(c)>>
  /\ draining' = TRUE
  /\ last' = NoOp
  /\ UNCHANGED <<cleaners, fn, made, stack, runs, handled, born, calls, tops,
                 prev, tvars, orig, env, annulled, swept, signal, given, ctl>>
  /\ UNCHANGED lvars
  /\ UNCHANGED svars

\* wrapped of a request's cleaner: abortController.abort(), then
\* removeCleaner().  Aborting rejects the promise of a request that is still
\* pending, which queues the reaction fetch() attached.
InvokeAbort ==
  /\ AtLoop
  /\ LET c == Current
     IN  /\ c # 0
         /\ fn[c].kind = "abort"
         /\ runs' = Ran(c)
         /\ ctl' = [ctl EXCEPT ![c] = "aborted"]
         /\ req' = [req EXCEPT ![c] = IF @ = "pending" THEN "aborted" ELSE @]
         /\ micro' = IF req[c] = "pending" THEN Append(micro, ThenJob(c))
                                           ELSE micro
         /\ cleaners' = RemoveCleaner(cleaners, c)
         /\ stack' = Stepped(c)
  /\ UNCHANGED <<fn, made, handled, born, calls, tops, prev, last, tvars, orig,
                 env, draining, annulled, swept, signal, given>>
  /\ UNCHANGED lvars
  /\ UNCHANGED svars

----------------------------------------------------------------------------
(* The listener adapter.  One target and one event type; every call passes *)
(* a callback of its own.  The target keeps a listener under its type, its *)
(* callback and its capture flag; of the options only that flag takes part *)
(* in telling listeners apart.                                             *)

ListenerFn ==
  [kind |-> "listener", op |-> "noop", target |-> 0, spawn |-> "noop"]

\* The options argument: undefined (capture is false), or a value that asks
\* for the capture phase or not.
ListenerOptions == [capture : BOOLEAN]

\* target.removeEventListener(type, callback, options) applied to the
\* listener the target holds for that type and callback: it is dropped if
\* the capture flags agree.
RemoveEventListener(l, capture) ==
  IF l.capture = capture THEN [l EXCEPT !.on = FALSE] ELSE l

\* The cleaner's call target.removeEventListener(type, callback): with no
\* third argument the capture flag is false.
Detach(l) == RemoveEventListener(l, FALSE)

\* janitor.addEventListener(target, type, callback, options)
AddEventListener(options) ==
  /\ Idle
  /\ made < MaxCleaners
  /\ LET c == made + 1
     IN  /\ listener' = [listener EXCEPT ![c] =
                           [on |-> TRUE, capture |-> options.capture]]
         /\ since' = [since EXCEPT ![c] = events]
         /\ cleaners' = Push(cleaners, c)
         /\ fn' = [fn EXCEPT ![c] = ListenerFn]
         /\ made' = c
         /\ born' = [born EXCEPT ![c] = {}]
         /\ last' = Registering(c, cleaners)
  /\ UNCHANGED <<stack, runs, handled, calls, tops, prev, tvars, pvars,
                 annulled, swept, fvars, heard, events>>
  /\ UNCHANGED svars

\* target.dispatchEvent(new Event(type)): the target calls the callback of
\* every listener it holds.
Dispatch ==
  /\ Idle
  /\ micro = <<>>
  /\ events < MaxEvents
  /\ events' = events + 1
  /\ heard' = [c \in Ids |-> IF listener[c].on THEN heard[c] + 1 ELSE heard[c]]
  /\ last' = NoOp
  /\ UNCHANGED <<cleaners, fn, made, stack, runs, handled, born, calls, tops,
                 prev, tvars, pvars, annulled, swept, fvars, listener, since>>
  /\ UNCHANGED svars

\* wrapped of a listener's cleaner: target.removeEventListener(type,
\* callback), then removeCleaner().
InvokeRemoveListener ==
  /\ AtLoop
  /\ LET c == Current
     IN  /\ c # 0
         /\ fn[c].kind = "listener"
         /\ runs' = Ran(c)
         /\ listener' = [listener EXCEPT ![c] = Detach(@)]
         /\ cleaners' = RemoveCleaner(cleaners, c)
         /\ stack' = Stepped(c)
  /\ UNCHANGED <<fn, made, handled, born, calls, tops, prev, last, tvars,
                 pvars, annulled, swept, fvars, heard, since, events>>
  /\ UNCHANGED svars

----------------------------------------------------------------------------
(* The stream adapter.  One source stream, with a subscriber of its own;    *)
(* every addStream() call returns a new derived stream, takeUntil(          *)
(* cleanupSubject) of the source, to which the caller subscribes at most    *)
(* once.  A subscription to a derived stream listens to the source and to  *)
(* cleanupSubject from the moment it is made, and ends when cleanupSubject *)
(* emits.                                                                  *)

SubjectFn ==
  [kind |-> "subject", op |-> "noop", target |-> 0, spawn |-> "noop"]

\* The caller's addStream() call found cleanupSubject in place.
Tracking == [NoOp EXCEPT !.op = "track", !.before = cleaners]

\* janitor.addStream(observable): the first call creates cleanupSubject and
\* registers the cleaner that makes it emit.
AddStream ==
  /\ Idle
  /\ tracked < MaxStreams
  /\ tracked' = tracked + 1
  /\ sub' = [sub EXCEPT ![tracked + 1] = "idle"]
  /\ IF ~subject
       THEN /\ made < MaxCleaners
            /\ subject' = TRUE
            /\ cleaners' = Push(cleaners, made + 1)
            /\ fn' = [fn EXCEPT ![made + 1] = SubjectFn]
            /\ made' = made + 1
            /\ born' = [born EXCEPT ![made + 1] = {}]
            /\ last' = Registering(made + 1, cleaners)
       ELSE /\ last' = Tracking
            /\ UNCHANGED <<subject, cleaners, fn, made, born>>
  /\ UNCHANGED <<stack, runs, handled, calls, tops, prev, tvars, pvars,
                 annulled, swept, fvars, lvars, got, emitted, direct, cut>>

\* derived.subscribe(observer)
Subscribe(t) ==
  /\ Idle
  /\ sub[t] = "idle"
  /\ sub' = [sub EXCEPT ![t] = "live"]
  /\ last' = NoOp
  /\ UNCHANGED <<cleaners, fn, made, stack, runs, handled, born, calls, tops,
                 prev, tvars, pvars, annulled, swept, fvars, lvars, subject,
                 tracked, got, emitted, direct, cut>>

\* The source emits a value: its own subscriber and every live subscriber
\* of a derived stream receive it.
Emit ==
  /\ Idle
  /\ micro = <<>>
  /\ emitted < MaxEmits
  /\ emitted' = emitted + 1
  /\ direct' = direct + 1
  /\ got' = [t \in Streams |-> IF sub[t] = "live" THEN got[t] + 1 ELSE got[t]]
  /\ last' = NoOp
  /\ UNCHANGED <<cleaners, fn, made, stack, runs, handled, born, calls, tops,
                 prev, tvars, pvars, annulled, swept, fvars, lvars, subject,
                 tracked, sub, cut>>

\* wrapped of the stream cleaner: cleanupSubject.next() (onNext() in RxJS 4)
\* ends every live subscription to a derived stream; then removeCleaner().
InvokeNext ==
  /\ AtLoop
  /\ LET c == Current
     IN  /\ c # 0
         /\ fn[c].kind = "subject"
         /\ runs' = Ran(c)
         /\ sub' = [t \in Streams |->
                     IF sub[t] = "live" THEN "ended" ELSE sub[t]]
         /\ cleaners' = RemoveCleaner(cleaners, c)
         /\ stack' = Stepped(c)
  /\ UNCHANGED <<fn, made, handled, born, calls, tops, prev, last, tvars,
                 pvars, annulled, swept, fvars, lvars, subject, tracked, got,
                 emitted, direct, cut>>

\* Callbacks a caller hands to addCleaner beside an adapter: they return or
\* raise.
PlainFns == {UserFn(op, 0, "noop") : op \in {"noop", "throw"}}

----------------------------------------------------------------------------
\* The registry with callbacks of every kind.
Next ==
  \/ \E f \in UserFns : AddCleaner(f)
  \/ \E c \in Ids : CallRemoveCleaner(c)
  \/ CallCleanup
  \/ InvokeReturn
  \/ InvokeRegister
  \/ InvokeUnregister
  \/ InvokeCleanup
  \/ InvokeThrow
  \/ Return

Spec == Init /\ [][Next]_vars

\* The registry with timers.
NextTimer ==
  \/ \E f \in PlainFns : AddCleaner(f)
  \/ SetTimeout
  \/ \E c \in Ids, throws \in BOOLEAN : TimerFire(c, throws)
  \/ CallCleanup
  \/ InvokeReturn
  \/ InvokeThrow
  \/ InvokeClearTimeout
  \/ Return

SpecTimer == Init /\ [][NextTimer]_vars

\* The registry with tracked promises.
NextPromise ==
  \/ \E f \in PlainFns : AddCleaner(f)
  \/ AddPromise
  \/ \E c \in Ids, how \in {"resolved", "rejected"} : Settle(c, how)
  \/ Microtask
  \/ CallCleanup
  \/ InvokeReturn
  \/ InvokeThrow
  \/ InvokeCancel
  \/ Return

SpecPromise == Init /\ [][NextPromise]_vars

\* The registry driven by callbacks that return, raise or register a further
\* callback, and that never call a handle or cleanup() themselves: every
\* cleanup() runs in a single frame.
RegisteringFns ==
  PlainFns \cup {UserFn("register", 0, s) : s \in {"noop", "throw"}}

NextRegistry ==
  \/ \E f \in RegisteringFns : AddCleaner(f)
  \/ \E c \in Ids : CallRemoveCleaner(c)
  \/ CallCleanup
  \/ InvokeReturn
  \/ InvokeRegister
  \/ InvokeThrow
  \/ Return

SpecRegistry == Init /\ [][NextRegistry]_vars

\* The registry with tracked requests.
NextFetch ==
  \/ \E f \in PlainFns : AddCleaner(f)
  \/ \E init \in Inits : Fetch(init)
  \/ \E c \in Ids, how \in {"resolved", "rejected"} : FetchSettle(c, how)
  \/ Microtask
  \/ CallCleanup
  \/ InvokeReturn
  \/ InvokeThrow
  \/ InvokeAbort
  \/ Return

SpecFetch == Init /\ [][NextFetch]_vars

\* The registry with event listeners.
NextListener ==
  \/ \E f \in PlainFns : AddCleaner(f)
  \/ \E options \in ListenerOptions : AddEventListener(options)
  \/ Dispatch
  \/ CallCleanup
  \/ InvokeReturn
  \/ InvokeThrow
  \/ InvokeRemoveListener
  \/ Return

SpecListener == Init /\ [][NextListener]_vars

\* The registry with tracked streams.
NextStream ==
  \/ \E f \in PlainFns : AddCleaner(f)
  \/ AddStream
  \/ \E t \in Streams : Subscribe(t)
  \/ Emit
  \/ CallCleanup
  \/ InvokeReturn
  \/ InvokeThrow
  \/ InvokeNext
  \/ Return

SpecStream == Init /\ [][NextStream]_vars

\* The registry with unregister handles and callbacks that return or raise.
NextHandles ==
  \/ \E f \in PlainFns : AddCleaner(f)
  \/ \E c \in Ids : CallRemoveCleaner(c)
  \/ CallCleanup
  \/ InvokeReturn
  \/ InvokeThrow
  \/ Return

SpecHandles == Init /\ [][NextHandles]_vars

----------------------------------------------------------------------------
(* Properties of the registry.                                             *)

\* A caller's cleanup() call has just returned to the caller.
JustReturned ==
  /\ stack = <<>>
  /\ last.op \in {"cleanup", "cleanup-again"}
  /\ prev.result = "returned"

\* C1: whatever the register, unregister and cleanup calls, also those made
\* from inside a running cleaner, no cleaner's callback is called more than
\* once.
C1_AtMostOnce == \A c \in Ids : runs[c] <= 1

\* C2: calling an unregister handle does not call the cleaner's callback,
\* and once the handle of a closure has been called no cleanup() calls its
\* callback, whether the handle was called by the caller or from inside
\* another cleaner during a cleanup().
C2_UnregisterCancels ==
  [][/\ \A c \in Ids : c \in handled => runs'[c] = runs[c]
     /\ (Idle /\ handled' # handled) => runs' = runs]_vars

\* C3: a closure unregistered right after its registration leaves
\* this.cleaners as it was before the registration, and no later cleanup()
\* calls its callback.
C3_RegisterUnregister ==
  /\ last.op = "register-unregister" => cleaners = last.before
  /\ \A c \in annulled : runs[c] = 0 /\ c \notin Range(cleaners)

\* A closure was registered behind another one and unregistered at once;
\* a cleanup() that started later, with a closure registered after it
\* pending, has returned.
C3_Witness ==
  \E c \in annulled :
    /\ stack = <<>>
    /\ prev.result = "returned"
    /\ \E d \in Range(prev.snap) : d < c
    /\ \E d \in Range(prev.snap) : d > c

\* C4: when cleanup() returns, no closure that was pending when it started
\* is still in this.cleaners, and this.cleaners is empty if no callback
\* registered a closure during the call; a second cleanup() made at once
\* calls the callback of none of those closures, and of no closure at all
\* if none was registered during the first call.
C4_CleanupIdempotent ==
  /\ JustReturned
       => /\ Range(prev.snap) \cap Range(cleaners) = {}
          /\ prev.regs = {} => cleaners = <<>>
  /\ last.op = "cleanup-again"
       => /\ \A c \in Range(last.before) : runs[c] = last.mark[c]
          /\ last.fresh => runs = last.mark

\* A second cleanup() has returned right after a first one that started
\* with two closures pending, and the second found a closure to call.
C4_Witness ==
  /\ JustReturned
  /\ last.op = "cleanup-again"
  /\ Len(last.before) >= 2
  /\ prev.snap # <<>>

\* C5: each cleanup() call calls the closures that were pending when it
\* started in registration order: of two such closures, the one registered
\* later is called only after the one registered earlier.
C5_RegistrationOrder ==
  \A k \in 1..Len(stack) :
    LET f == stack[k]
    IN  /\ Range(f.done) \subseteq Range(f.snap)
        /\ \A a, b \in Range(f.snap) :
             (a < b /\ b \in Range(f.done))
               => /\ a \in Range(f.done)
                  /\ IndexOf(f.done, a) < IndexOf(f.done, b)

\* Closure 1 was unregistered without running, which moved closures 2 and 3
\* one place down, and a cleanup() has called 2 and then 3.
C5_Witness ==
  /\ 1 \in handled
  /\ runs[1] = 0
  /\ \E k \in 1..Len(stack) : stack[k].done = <<2, 3>>

\* C6: a closure registered by a callback while a cleanup() call is running
\* is not called by that call; unless its handle is called or a nested
\* cleanup() has run it, it is pending when the caller's call returns; and a
\* later cleanup() by the caller calls it.
C6_RegisteredDuringCleanup ==
  /\ \A k \in 1..Len(stack) :
       \A c \in Range(stack[k].done) : stack[k].call \notin born[c]
  /\ JustReturned
       => \A c \in prev.regs :
            c \in handled \/ runs[c] > 0 \/ c \in Range(cleaners)
  /\ \A c \in 1..made :
       (/\ stack = <<>>
        /\ born[c] # {}
        /\ c \notin handled
        /\ \A n \in born[c] : prev.call > n)
         => runs[c] >= 1

\* C7: a timer that was pending when the caller's cleanup() started never
\* runs its callback afterwards, and when cleanup() returns the closures
\* that were pending when it started are out of this.cleaners.
C7_ClearedTimerNeverFires ==
  /\ \A c \in swept : timer[c] # "none" => cb[c] = 0
  /\ JustReturned => Range(prev.snap) \cap Range(cleaners) = {}

\* C8: once a timer has fired its callback has run once, its closure is out
\* of this.cleaners whether the callback returned or raised, an error of the
\* callback went to console.error and not to the scheduler, and clearTimeout
\* has not been called for it, by the removal or by any cleanup() since.
C8_TimerFired ==
  \A c \in Ids :
    timer[c] \in {"fired", "failed"}
      => /\ cb[c] = 1
         /\ c \notin Range(cleaners)
         /\ c \notin escaped
         /\ (timer[c] = "failed") <=> (c \in logged)
         /\ runs[c] = 0

\* A timer callback has raised, and a cleanup() that found another closure
\* to call has returned since.
C8_Witness ==
  \E c \in Ids :
    /\ timer[c] = "failed"
    /\ JustReturned
    /\ \E d \in Range(prev.snap) : d > c

\* The closure of tracked promise c has been removed by the reaction to the
\* envelope's settlement.
Detached(c) == fn[c].kind = "promise" /\ c \in handled

\* C9: a tracked promise whose cancel() was not called settles its envelope
\* with its own outcome; once the given promise has settled and the queued
\* reactions have run, the closure is out of this.cleaners, cleanup() or not;
\* and after that removal no cleanup() calls cancel().
C9_PromiseSettles ==
  /\ [](\A c \in Ids :
         /\ (fn[c].kind = "promise" /\ runs[c] = 0 /\ env[c] # "pending")
              => env[c] = orig[c]
         /\ (orig[c] \in {"resolved", "rejected"} /\ micro = <<>>)
              => c \notin Range(cleaners))
  /\ [][\A c \in Ids : Detached(c) => runs'[c] = runs[c]]_vars

\* A tracked promise settled by itself and its closure was removed by the
\* reaction; a cleanup() that started later, with a closure registered after
\* it pending, has returned without calling cancel().
C9_Witness ==
  \E c \in Ids :
    /\ Detached(c)
    /\ env[c] = "resolved"
    /\ runs[c] = 0
    /\ JustReturned
    /\ \E d \in Range(prev.snap) : d > c

\* The oldest queued job is the reaction that removes closure c, and c has
\* already left this.cleaners.
LateReaction(c) ==
  /\ stack = <<>>
  /\ micro # <<>>
  /\ Head(micro) = ThenJob(c)
  /\ c \notin Range(cleaners)

\* C10: a tracked promise that was pending when the caller's cleanup()
\* started never settles its envelope with the given promise's outcome; when
\* cleanup() returns the closures pending at its start are out of
\* this.cleaners; and the reaction that runs later removes nothing.
C10_CancelOnCleanup ==
  [][/\ \A c \in swept' :
          orig'[c] # "none" => env'[c] \notin {"resolved", "rejected"}
     /\ JustReturned' => Range(prev'.snap) \cap Range(cleaners') = {}
     /\ \A c \in Ids :
          (LateReaction(c) /\ micro' = Tail(micro)) => cleaners' = cleaners]_vars

\* The latest caller-level operation registered the cleaner of a request.
JustFetched == last.op = "register" /\ fn[last.id].kind = "abort"

\* C11: fetch() given options that carry a signal of the caller's never goes
\* through, and a fetch() call that throws leaves this.cleaners as it found
\* it, creates no closure and issues no request.
C11_FetchRejectsSignal ==
  /\ JustFetched => given.kind # "withSignal"
  /\ last.op = "fetch-threw"
       => /\ cleaners = last.before
          /\ made = last.id
          /\ req = last.mark

\* fetch() has thrown on options with a signal of the caller's while a
\* cleaner of the caller and the cleaner of a request in flight were pending.
C11_Witness ==
  /\ last.op = "fetch-threw"
  /\ given.kind = "withSignal"
  /\ \E c, d \in Range(cleaners) : fn[c].kind = "user" /\ req[d] = "pending"

\* C12: a fetch() call that goes through adds exactly one closure to
\* this.cleaners; a request that was pending when the caller's cleanup()
\* started has had its controller aborted when that call is over; and the
\* controller of a request that settled by itself is never aborted, its
\* closure being out of this.cleaners once the queued reaction has run.
C12_FetchLifecycle ==
  /\ JustFetched => cleaners = Append(last.before, last.id)
  /\ \A c \in swept :
       (fn[c].kind = "abort" /\ stack = <<>>) => ctl[c] = "aborted"
  /\ \A c \in Ids :
       req[c] \in {"resolved", "rejected"}
         => /\ ctl[c] = "live"
            /\ micro = <<>> => c \notin Range(cleaners)

\* C13: whatever the options, the event callback of a listener whose cleaner
\* is pending and has not run has been called once for every event since
\* its registration; once cleanup() has run the listener's cleaner, no event
\* calls the callback; and the run of the listener's cleaner takes one entry
\* out of this.cleaners.
C13_ListenerDetached ==
  [][/\ \A c \in Range(cleaners') :
          (fn'[c].kind = "listener" /\ runs'[c] = 0)
            => heard'[c] = events' - since'[c]
     /\ \A c \in Ids :
          (fn[c].kind = "listener" /\ runs[c] > 0) => heard'[c] = heard[c]
     /\ \A c \in Ids :
          (fn[c].kind = "listener" /\ runs'[c] > runs[c])
            => Len(cleaners') = Len(cleaners) - 1]_vars

\* The closures that make cleanupSubject emit.
SubjectCleaners == {c \in 1..made : fn[c].kind = "subject"}

\* C14: the derived streams of one janitor share one cleaner: only one is
\* ever created, and an addStream() call after the first leaves
\* this.cleaners as it was; once a caller's cleanup() is over, a derived
\* stream whose subscription was live when it started delivers nothing
\* more; and the direct subscriber of the source receives every emission.
C14_SharedStreamCleaner ==
  [][/\ Cardinality(SubjectCleaners') <= 1
     /\ last'.op = "track" => cleaners' = last'.before
     /\ \A t \in cut : stack = <<>> => got'[t] = got[t]
     /\ direct' = emitted']_vars

\* C15: whenever it was returned, a derived stream with a live subscription
\* has the cleaner that ends it pending, and no subscription to a derived
\* stream is live when a caller's cleanup() has returned.
C15_StreamStoppedByNextCleanup ==
  /\ \A t \in Streams :
       sub[t] = "live" => SubjectCleaners \cap Range(cleaners) # {}
  /\ JustReturned => \A t \in Streams : sub[t] # "live"

\* Closure c is inside its callback in some cleanup() call in progress.
Running(c) == \E k \in 1..Len(stack) : stack[k].cur = c

\* C16: a closure whose wrapped function has been called, and is not still
\* inside its callback, is out of this.cleaners, whether the callback
\* returned or raised.
C16_InvokedIsRemoved ==
  \A c \in Ids : (runs[c] > 0 /\ ~Running(c)) => c \notin Range(cleaners)

\* The array s without c, the other elements in their order.
Without(s, c) == SelectSeq(s, LAMBDA x : x # c)

\* C17: a call of the handle of closure c, whatever was registered, removed
\* or cleaned up before, leaves this.cleaners without c and with every other
\* entry in its place and order; it changes nothing if c is not there.
C17_HandleRemovesOwnEntry ==
  [][\A c \in Ids :
       CallRemoveCleaner(c)
         => /\ cleaners' = Without(cleaners, c)
            /\ c \notin Range(cleaners) => cleaners' = cleaners]_vars

\* The handle of a closure was called after cleanup() had run and removed
\* it, while another closure was pending, and the handle of a closure
\* registered between two closures over the same callback was called too.
C17_Witness ==
  /\ stack = <<>>
  /\ cleaners # <<>>
  /\ \E c \in handled : fn[c].op = "noop" /\ runs[c] > 0
  /\ \E c \in handled :
       /\ runs[c] = 0
       /\ \E a, b \in 1..made : a < c /\ c < b /\ fn[a].op = fn[b].op

\* C18: when a caller's cleanup() call is over, the callback of every
\* closure that was pending when it started has been called.
C18_AllPendingInvoked ==
  (stack = <<>> /\ prev.call > 0)
    => \A c \in Range(prev.snap) : runs[c] > 0

\* C19: cleanup() calls made from inside callbacks come to an end: no
\* callback that is waiting for the cleanup() call it made is entered again
\* from within that call and makes the same call once more.
C19_CleanupTerminates ==
  \A k, m \in 1..Len(stack) :
    (k < m /\ stack[k].cur # 0) => stack[m].cur # stack[k].cur

\* C20: fetch() leaves no signal in an options object of the caller's, and
\* it throws only on options that carry a signal of the caller's.
C20_OptionsLeftAlone ==
  /\ \A o \in Opts : signal[o] = "none"
  /\ last.op = "fetch-threw" => given.kind = "withSignal"

====
